---- MODULE Spec2Model ----
(***************************************************************************)
(* Verdifi dashboard: the per-connection sampling loop of                  *)
(* dashboard/server.js (io.on('connection') and the closures measureOnce,  *)
(* startLoop and the start/stop/disconnect handlers).                      *)
(*                                                                         *)
(* Every connection owns the closure variables isClosed, loopActive,       *)
(* carbonAccumulator and the property socket.sampleCount.  The async       *)
(* functions are cut at their await points: one action per resumption.     *)
(*                                                                         *)
(* Also modelled: the earlier variant of the connection callback           *)
(* (unnamed/part_002) and the SecurityMonitor of src/esgFinancialModel.js  *)
(* (event log, threat level, connection and request monitoring), whose     *)
(* methods are synchronous: one action per call.                           *)
(***************************************************************************)
EXTENDS Bags, FiniteSets, Integers, Sequences, TLC

\* ------------------------------------------------------------------ bounds
\* Largest carbonEmission (in whole units) a sample carries in the model.
MaxEmission == 2
\* Number of measurement cycles (calls of nodeCarbon.start()) a session may begin.
MaxCycles == 6
\* The same, in the specification with fairness.
FairCycles == 2
\* The same, in the specifications with two connections.
MultiCycles == 1
\* The same, in the specification of the earlier server variant.
EarlierCycles == 2

\* --------------------------------------------------------------- constants
\* `socket.sampleCount % 5 === 0`
UpdateEvery == 5

\* The connections of the model.
SessionIds == {"A", "B"}

\* Positions of one startLoop() invocation that passed the loopActive guard.
\*   starting : awaiting nodeCarbon.start()            (measureOnce, line 245)
\*   settle   : awaiting the 1000 ms settle timer      (measureOnce, line 247)
\*   stopping : awaiting nodeCarbon.stop()             (measureOnce, line 248)
\*   pause    : awaiting the 1000 ms inter-cycle timer (startLoop, line 321)
\*   exited   : the while loop has ended and startLoop has returned
LoopPc == {"starting", "settle", "stopping", "pause", "exited"}
MidCycle == {"starting", "settle", "stopping"}

\* What `await nodeCarbon.stop()` can deliver: a rejection, or a result object.
\* A result has carbonEmission present or absent, and either carries the
\* cpuUsageInfo / memoryUsageInfo objects the measurement payload reads
\* (wellFormed) or lacks one of them.
Samples == [present : {TRUE}, carbonEmission : 0..MaxEmission, wellFormed : BOOLEAN]
             \cup [present : {FALSE}, carbonEmission : {0}, wellFormed : BOOLEAN]

VARIABLES
  link,              \* transport: "none" (not connected), "open", "gone" (disconnected)
  phase,             \* connection callback: "none", "lookup" (awaiting getEnergyInfo), "ready" (handlers registered)
  energyInfo,        \* "none", "looked_up", "fallback", or "unavailable" (earlier variant: lookup failed, no value)
  isClosed,          \* let isClosed
  loopActive,        \* let loopActive
  loops,             \* per session: the positions of the startLoop() invocations that passed the guard
  carbonAccumulator, \* let carbonAccumulator
  sampleCount,       \* socket.sampleCount (0 while the property is not set)
  sent,              \* events socket.emit was called with during the latest step of the session
  sentCount,         \* history: how many events of each name were emitted so far
  beginCalls,        \* history: calls of nodeCarbon.start()
  okSamples,         \* history: bag of the emission quantities of the successful samples
  cyclesAfterStop,   \* history: cycles that completed after isClosed was set
  measAfterStop,     \* history: measurement events emitted after isClosed was set
  extraStart,        \* history: a start signal was handled while loopActive was already set
  stopSeen,          \* history: a stop signal was handled
  startSent,         \* history: the observer sent a start signal over the open connection
  cycleCap,          \* per session: the bound on the cycles it begins (never changes)
  securityEvents,    \* SecurityMonitor: this.securityEvents
  threatLevel,       \* SecurityMonitor: this.threatLevel
  connectionAttempts, \* SecurityMonitor: this.connectionAttempts (ip -> count, 0 when the ip has no entry)
  suspiciousActivity, \* SecurityMonitor: this.suspiciousActivity
  logged,            \* history: type and severity of every logEvent call, in call order
  esgModel,          \* const esgModel = new ESGFinancialModel(): the fields of the shared instance
  reply,             \* what the latest query or API request returned to its caller
  scored,            \* history: per metrics vector, the results calculateESGScore returned for it
  userId,            \* per visitor: req.session.userId of the visitor's session ("none" when unset)
  page               \* per visitor: what the latest page request was answered with (and, as history, the session's userId then)

vars == <<link, phase, energyInfo, isClosed, loopActive, loops, carbonAccumulator,
          sampleCount, sent, sentCount, beginCalls, okSamples, cyclesAfterStop, measAfterStop,
          extraStart, stopSeen, startSent, cycleCap,
          securityEvents, threatLevel, connectionAttempts, suspiciousActivity, logged,
          esgModel, reply, scored, userId, page>>

apiVars == <<esgModel, reply, scored, userId, page>>
monVars == <<securityEvents, threatLevel, connectionAttempts, suspiciousActivity, logged>>
sessVars == <<link, phase, energyInfo, isClosed, loopActive, loops, carbonAccumulator,
              sampleCount, sent, sentCount, beginCalls, okSamples, cyclesAfterStop, measAfterStop,
              extraStart, stopSeen, startSent, cycleCap>>

connVars == <<link, phase, energyInfo>>
histVars == <<beginCalls, okSamples, cyclesAfterStop, measAfterStop, extraStart, stopSeen, startSent, cycleCap>>

EventNames == {"energyInfo", "esgScore", "esgFinancialImpact", "measurement", "error", "esgUpdate"}

\* -------------------------------------------------------- SecurityMonitor
\* this.maxEvents, the capacity of the event log (1000 in the source; the model
\* keeps the log this short).
MaxEvents == 7

\* Length of the window updateThreatLevel reads, slice(-50) in the source.  It
\* exceeds the largest threshold of the ladder and is below the capacity, as in
\* the source.
ThreatWindow == 6

\* logEvent calls made directly in one run.
MaxLogCalls == 9

\* logEvent calls after which the monitor entry points are no longer called.
MaxMonitorLogs == 8

\* monitorConnection calls made per IP address.
MaxAttempts == 2

\* Length of the window getSecurityStats reads, slice(-100) in the source; it is
\* below the capacity of the log, as in the source.
StatsWindow == 3

\* monitorConnection calls made by the one address that exceeds the rate limit
\* (the limit itself, attempts > 10, is the source's).
RateCalls == 12

\* logEvent calls after which the monitored traffic ends and only the health
\* score is queried.
MaxHealthLogs == 6

\* logEvent calls made before the snapshot queries end.
MaxQueryLogs == 4

\* Largest limit getRecentEvents is called with.
MaxLimit == 3

\* Cycles begun by the connection of a visitor who also uses the auth routes.
AuthCycles == 1

Severities == {"low", "medium", "high", "critical"}

\* calculateThreatLevel: levels[severity] || 1
calculateThreatLevel(severity) ==
  CASE severity = "low" -> 1
    [] severity = "medium" -> 2
    [] severity = "high" -> 3
    [] severity = "critical" -> 4
    [] OTHER -> 1

\* array.slice(-n) for n > 0
LastN(seq, n) == IF Len(seq) <= n THEN seq ELSE SubSeq(seq, Len(seq) - n + 1, Len(seq))

\* Variant: the filter tests 'high' only.
IsHighOnly(e) == e.severity = "high"

\* e.severity === 'high' || e.severity === 'critical'
IsHighSeverity(e) == e.severity = "high" \/ e.severity = "critical"

\* recentEvents.filter(...).length
HighSeverityCount(events) ==
  LET recentEvents == LastN(events, ThreatWindow)
  IN  Cardinality({k \in DOMAIN recentEvents : IsHighSeverity(recentEvents[k])})

\* Variant: thresholds tested with >=.
LevelForAtLeast(highSeverityCount) ==
  IF highSeverityCount >= 5 THEN "critical"
  ELSE IF highSeverityCount >= 2 THEN "high"
  ELSE IF highSeverityCount >= 0 THEN "medium"
  ELSE "low"

\* the if / else-if chain of updateThreatLevel
LevelFor(highSeverityCount) ==
  IF highSeverityCount > 5 THEN "critical"
  ELSE IF highSeverityCount > 2 THEN "high"
  ELSE IF highSeverityCount > 0 THEN "medium"
  ELSE "low"

updateThreatLevel(events) == LevelFor(HighSeverityCount(events))

\* Variant: this.securityEvents.unshift(event)
PushFront(events, event) == <<event>> \o events

\* this.securityEvents.push(event)
Push(events, event) == Append(events, event)

\* Variant: pop() for shift().
KeepOldest(events) ==
  IF Len(events) > MaxEvents THEN SubSeq(events, 1, Len(events) - 1) ELSE events

\* if (this.securityEvents.length > this.maxEvents) this.securityEvents.shift()
KeepRecent(events) == IF Len(events) > MaxEvents THEN Tail(events) ELSE events

\* logEvent on the monitor state m = [securityEvents, threatLevel, logged]: the
\* event gets id length + 1, is pushed, the log is cut to its capacity and the
\* threat level recomputed.  (timestamp and details are not modelled; `call` is
\* history: the number of the logEvent call that made the event.)
logEvent(m, type, severity) ==
  LET event == [ id |-> Len(m.securityEvents) + 1,
                 type |-> type,
                 severity |-> severity,
                 threatLevel |-> calculateThreatLevel(severity),
                 call |-> Len(m.logged) + 1 ]
      kept == KeepRecent(Push(m.securityEvents, event))
  IN  [ securityEvents |-> kept,
        threatLevel |-> updateThreatLevel(kept),
        logged |-> Append(m.logged, [type |-> type, severity |-> severity]) ]

IPs == {"10.0.0.1", "10.0.0.2"}

\* endpoint.includes(pattern), for the request paths of the model and the
\* patterns monitorAPIRequest looks for.
Includes(endpoint, pattern) ==
  CASE endpoint = "/api/esg?id=1'--" -> pattern \in {"'", "--"}
    [] endpoint = "/api/q=<script>" -> pattern = "<script>"
    [] OTHER -> FALSE

\* The requests made: endpoint and response status.
Requests ==
  { [endpoint |-> "/api/esg/score", statusCode |-> 200],
    [endpoint |-> "/api/esg?id=1'--", statusCode |-> 403],
    [endpoint |-> "/api/q=<script>", statusCode |-> 500] }

\* new SecurityMonitor()
Constructed ==
  /\ securityEvents = <<>>
  /\ threatLevel = "low"
  /\ connectionAttempts = [ip \in IPs |-> 0]
  /\ suspiciousActivity = <<>>
  /\ logged = <<>>

\* ------------------------------------------------------- ESGFinancialModel
\* JavaScript numbers are modelled as exact fractions [n, d] with d > 0, in
\* lowest terms.
Abs(k) == IF k < 0 THEN -k ELSE k

RECURSIVE GCD(_, _)
GCD(a, b) == IF b = 0 THEN a ELSE GCD(b, a % b)

Frac(n, d) == LET g == GCD(Abs(n), d) IN [n |-> n \div g, d |-> d \div g]

Num(k) == [n |-> k, d |-> 1]

Plus(x, y) == Frac(x.n * y.d + y.n * x.d, x.d * y.d)

Minus(x, y) == Plus(x, [n |-> -y.n, d |-> y.d])

Times(x, y) ==
  LET g1 == GCD(Abs(x.n), y.d)
      g2 == GCD(Abs(y.n), x.d)
  IN  [n |-> (x.n \div g1) * (y.n \div g2), d |-> (x.d \div g2) * (y.d \div g1)]

\* x / k for a whole k > 0
Over(x, k) == Times(x, [n |-> 1, d |-> k])

\* 1 / x for x # 0
Inverse(x) == IF x.n < 0 THEN [n |-> -x.d, d |-> -x.n] ELSE [n |-> x.d, d |-> x.n]

IsZero(x) == x.n = 0

\* Math.max(0, x)
MaxZero(x) == IF x.n < 0 THEN Num(0) ELSE x

\* Math.round(x): the nearest whole number, halves towards +Infinity.
MathRound(x) == LET y == Plus(x, [n |-> 1, d |-> 2]) IN y.n \div y.d

\* x.toFixed(2): the decimal string with two places, halves away from zero,
\* given as its number of hundredths ("10.95" is 1095).
ToFixed2(x) ==
  LET y == Times(x, Num(100))
      a == Abs(y.n)
      q == a \div y.d
      m == IF 2 * (a % y.d) >= y.d THEN q + 1 ELSE q
  IN  IF y.n < 0 THEN -m ELSE m

MetricNames ==
  {"carbonFootprint", "renewableEnergy", "wasteReduction", "employeeSatisfaction", "diversity",
   "communityImpact", "boardIndependence", "transparency", "ethicsCompliance"}

\* const { carbonFootprint = 0, ... } = metrics: a field that is absent is 0.
Metric(metrics, name) == IF name \in DOMAIN metrics THEN Num(metrics[name]) ELSE Num(0)

\* Variant: Math.round((pillar || 1) * (max / (pillar || 1))).
NormalisedBothGuarded(pillar, max) ==
  IF IsZero(pillar) THEN MathRound(Times(Num(1), Num(max)))
  ELSE MathRound(Times(pillar, Times(Num(max), Inverse(pillar))))

\* Math.round(pillar * (max / (pillar || 1))): 0 for a pillar of 0; otherwise
\* pillar * (max / pillar), which is max (the floating-point product is within
\* rounding of it and Math.round returns max).
Normalised(pillar, max) ==
  IF IsZero(pillar) THEN MathRound(Times(pillar, Num(max)))
  ELSE MathRound(Times(pillar, Times(Num(max), Inverse(pillar))))

\* ESGFinancialModel.calculateESGScore(metrics)
calculateESGScore(metrics) ==
  LET carbonScore == MaxZero(Minus(Num(15), Over(Metric(metrics, "carbonFootprint"), 100)))
      renewableScore == Times(Over(Metric(metrics, "renewableEnergy"), 100), Num(15))
      wasteScore == Times(Over(Metric(metrics, "wasteReduction"), 100), Num(10))
      environmentalScore == Plus(Plus(carbonScore, renewableScore), wasteScore)
      employeeScore == Times(Over(Metric(metrics, "employeeSatisfaction"), 100), Num(10))
      diversityScore == Times(Over(Metric(metrics, "diversity"), 100), Num(10))
      communityScore == Times(Over(Metric(metrics, "communityImpact"), 100), Num(10))
      socialScore == Plus(Plus(employeeScore, diversityScore), communityScore)
      boardScore == Times(Over(Metric(metrics, "boardIndependence"), 100), Num(10))
      transparencyScore == Times(Over(Metric(metrics, "transparency"), 100), Num(10))
      ethicsScore == Times(Over(Metric(metrics, "ethicsCompliance"), 100), Num(10))
      governanceScore == Plus(Plus(boardScore, transparencyScore), ethicsScore)
      totalScore == Plus(Plus(environmentalScore, socialScore), governanceScore)
  IN  [ overall |-> MathRound(totalScore),
        environmental |-> Normalised(environmentalScore, 40),
        social |-> Normalised(socialScore, 30),
        governance |-> Normalised(governanceScore, 30),
        breakdown |->
          [ environmental |-> [ carbonFootprint |-> MathRound(carbonScore),
                                renewableEnergy |-> MathRound(renewableScore),
                                wasteReduction |-> MathRound(wasteScore) ],
            social |-> [ employeeSatisfaction |-> MathRound(employeeScore),
                         diversity |-> MathRound(diversityScore),
                         communityImpact |-> MathRound(communityScore) ],
            governance |-> [ boardIndependence |-> MathRound(boardScore),
                             transparency |-> MathRound(transparencyScore),
                             ethicsCompliance |-> MathRound(ethicsScore) ] ] ]

\* Variant: up to 3 turns of revenue on top of the base multiple.
valuationMultipleWider(esgScore) == Plus(Num(10), Times(Over(Num(esgScore), 100), Num(3)))

\* 10 + (esgScore / 100) * 2
valuationMultipleFor(esgScore) == Plus(Num(10), Times(Over(Num(esgScore), 100), Num(2)))

\* const carbonPricePerTon = 50
carbonPricePerTon == 50

\* ESGFinancialModel.calculateFinancialImpact(esgScore, revenue, carbonEmissions)
\* for whole-number arguments; the toFixed(2) fields are numbers of hundredths.
\* (revenueImpact divides by revenue and is left out: it is NaN for revenue 0.)
calculateFinancialImpact(esgScore, revenue, carbonEmissions) ==
  LET esgPremium == Times(Over(Num(esgScore), 100), Frac(15, 100))
      adjustedRevenue == Times(Num(revenue), Plus(Num(1), esgPremium))
      carbonCost == Times(Num(carbonEmissions), Num(carbonPricePerTon))
      potentialSavings == Times(Times(Num(carbonEmissions), Num(carbonPricePerTon)), Frac(3, 10))
      baseReturn == Frac(8, 100)
      esgRiskAdjustment == Times(Over(Num(esgScore), 100), Frac(3, 100))
      adjustedReturn == Plus(baseReturn, esgRiskAdjustment)
      baseCostOfCapital == Frac(10, 100)
      esgCostReduction == Times(Over(Num(esgScore), 100), Frac(2, 100))
      adjustedCostOfCapital == Minus(baseCostOfCapital, esgCostReduction)
      valuationMultiple == valuationMultipleFor(esgScore)
      enterpriseValue == Times(adjustedRevenue, valuationMultiple)
  IN  [ esgPremium |-> ToFixed2(Times(esgPremium, Num(100))),
        adjustedRevenue |-> ToFixed2(adjustedRevenue),
        carbonCost |-> ToFixed2(carbonCost),
        potentialSavings |-> ToFixed2(potentialSavings),
        adjustedReturn |-> ToFixed2(Times(adjustedReturn, Num(100))),
        adjustedCostOfCapital |-> ToFixed2(Times(adjustedCostOfCapital, Num(100))),
        valuationMultiple |-> ToFixed2(valuationMultiple),
        enterpriseValue |-> ToFixed2(enterpriseValue),
        metrics |-> [ costSavings |-> potentialSavings,
                      returnImprovement |-> ToFixed2(Times(esgRiskAdjustment, Num(100))),
                      capitalCostReduction |-> ToFixed2(Times(esgCostReduction, Num(100))) ] ]

\* getRiskRecommendation(riskLevel)
getRiskRecommendation(riskLevel) ==
  CASE riskLevel = "low" -> "Maintain current ESG standards"
    [] riskLevel = "medium" -> "Focus on improving weak ESG areas"
    [] riskLevel = "high" -> "Immediate ESG improvement needed"
    [] riskLevel = "critical" -> "Urgent ESG remediation required"
    [] OTHER -> "Review ESG strategy"

\* ESGFinancialModel.assessESGRisk(esgScore): the level and score from the
\* overall value, the risk factors pushed in this order from the three pillar
\* fields of the score object.
assessESGRisk(esgScore) ==
  LET overall == esgScore.overall
      riskLevel == IF overall >= 80 THEN "low"
                   ELSE IF overall >= 60 THEN "medium"
                   ELSE IF overall >= 40 THEN "high"
                   ELSE "critical"
      riskScore == IF overall >= 80 THEN 20
                   ELSE IF overall >= 60 THEN 40
                   ELSE IF overall >= 40 THEN 60
                   ELSE 80
      f1 == IF esgScore.environmental < 30 THEN <<"Environmental compliance risk">> ELSE <<>>
      f2 == IF esgScore.social < 20 THEN <<"Social responsibility risk">> ELSE <<>>
      f3 == IF esgScore.governance < 20 THEN <<"Governance risk">> ELSE <<>>
  IN  [ riskLevel |-> riskLevel,
        riskScore |-> riskScore,
        riskFactors |-> f1 \o f2 \o f3,
        recommendation |-> getRiskRecommendation(riskLevel) ]

\* The metrics vectors requests carry: every field 0, every field 100, the
\* worked example of the project overview, no field at all, a footprint that
\* exhausts the carbon score with everything else 0, and a negative percentage.
AllFields(v) == [name \in MetricNames |-> v]

ExampleMetrics ==
  [ carbonFootprint |-> 400, renewableEnergy |-> 60, wasteReduction |-> 75,
    employeeSatisfaction |-> 85, diversity |-> 60, communityImpact |-> 70,
    boardIndependence |-> 80, transparency |-> 75, ethicsCompliance |-> 85 ]

NoMetrics == [name \in {} |-> 0]

MetricsVectors ==
  { AllFields(0), AllFields(100), ExampleMetrics, NoMetrics,
    [carbonFootprint |-> 1500], [renewableEnergy |-> -50, diversity |-> 40] }

\* A body field of a JSON request: <<>> when the field is absent, <<v>> otherwise.
\* value || fallback: the fallback replaces an absent value and a value of 0.
OrDefault(field, fallback) == IF field = <<>> \/ field[1] = 0 THEN fallback ELSE field[1]

\* The bodies of POST /api/esg/financial-impact requests.
ImpactBodies ==
  [ esgScore : {<<>>, <<0>>, <<73>>, <<-10>>},
    revenue : {<<>>, <<0>>, <<1000000>>, <<-10000>>},
    carbonEmissions : {<<>>, <<0>>, <<100>>, <<-5>>} ]

Visitors == SessionIds

\* The server is up: the shared ESGFinancialModel is constructed, no request
\* was answered, no visitor has logged in.
ServerUp ==
  /\ esgModel = [ esgWeights |-> [ environmental |-> Frac(4, 10), social |-> Frac(3, 10),
                                    governance |-> Frac(3, 10) ],
                   carbonIntensityFactors |-> [ high |-> Frac(8, 10), medium |-> Frac(5, 10),
                                                low |-> Frac(2, 10), renewable |-> Frac(1, 10) ] ]
  /\ reply = [op |-> "none"]
  /\ scored = [m \in MetricsVectors |-> {}]
  /\ userId = [v \in Visitors |-> "none"]
  /\ page = [v \in Visitors |-> [file |-> "none", userId |-> "none"]]

\* State right after process start: nobody is connected.
NoSession ==
  /\ link = [s \in SessionIds |-> "none"]
  /\ phase = [s \in SessionIds |-> "none"]
  /\ energyInfo = [s \in SessionIds |-> "none"]
  /\ isClosed = [s \in SessionIds |-> FALSE]
  /\ loopActive = [s \in SessionIds |-> FALSE]
  /\ loops = [s \in SessionIds |-> <<>>]
  /\ carbonAccumulator = [s \in SessionIds |-> 0]
  /\ sampleCount = [s \in SessionIds |-> 0]
  /\ sent = [s \in SessionIds |-> <<>>]
  /\ sentCount = [s \in SessionIds |-> [n \in EventNames |-> 0]]
  /\ beginCalls = [s \in SessionIds |-> 0]
  /\ okSamples = [s \in SessionIds |-> EmptyBag]
  /\ cyclesAfterStop = [s \in SessionIds |-> 0]
  /\ measAfterStop = [s \in SessionIds |-> 0]
  /\ extraStart = [s \in SessionIds |-> FALSE]
  /\ stopSeen = [s \in SessionIds |-> FALSE]
  /\ startSent = [s \in SessionIds |-> FALSE]

Init == NoSession /\ Constructed /\ ServerUp /\ cycleCap = [s \in SessionIds |-> MaxCycles]

FairInit == NoSession /\ Constructed /\ ServerUp /\ cycleCap = [s \in SessionIds |-> FairCycles]

EarlierInit == NoSession /\ Constructed /\ ServerUp /\ cycleCap = [s \in SessionIds |-> EarlierCycles]

\* A state the single connection A reaches under Spec: connected, looked up, started once, four successful
\* samples of the largest quantity reported, the loop pausing before its fifth
\* cycle; B not connected.
FourSamples ==
  /\ link = [s \in SessionIds |-> IF s = "A" THEN "open" ELSE "none"]
  /\ phase = [s \in SessionIds |-> IF s = "A" THEN "ready" ELSE "none"]
  /\ energyInfo = [s \in SessionIds |-> IF s = "A" THEN "looked_up" ELSE "none"]
  /\ isClosed = [s \in SessionIds |-> FALSE]
  /\ loopActive = [s \in SessionIds |-> s = "A"]
  /\ loops = [s \in SessionIds |-> IF s = "A" THEN <<"pause">> ELSE <<>>]
  /\ carbonAccumulator = [s \in SessionIds |-> IF s = "A" THEN (UpdateEvery - 1) * MaxEmission ELSE 0]
  /\ sampleCount = [s \in SessionIds |-> IF s = "A" THEN UpdateEvery - 1 ELSE 0]
  /\ sent = [s \in SessionIds |->
               IF s = "A"
                 THEN << [name |-> "measurement", present |-> TRUE, carbonEmission |-> MaxEmission] >>
                 ELSE <<>>]
  /\ sentCount = [s \in SessionIds |-> [n \in EventNames |->
                    IF s = "A" /\ n \in {"energyInfo", "esgScore", "esgFinancialImpact"} THEN 1
                    ELSE IF s = "A" /\ n = "measurement" THEN UpdateEvery - 1
                    ELSE 0]]
  /\ beginCalls = [s \in SessionIds |-> IF s = "A" THEN UpdateEvery - 1 ELSE 0]
  /\ okSamples = [s \in SessionIds |->
                    IF s = "A" THEN [e \in {MaxEmission} |-> UpdateEvery - 1] ELSE EmptyBag]
  /\ cyclesAfterStop = [s \in SessionIds |-> 0]
  /\ measAfterStop = [s \in SessionIds |-> 0]
  /\ extraStart = [s \in SessionIds |-> FALSE]
  /\ stopSeen = [s \in SessionIds |-> FALSE]
  /\ startSent = [s \in SessionIds |-> s = "A"]

\* Two connections: either from the start, or with A one cycle short of its
\* first score update when B connects.
MultiInit ==
  \/ NoSession /\ Constructed /\ ServerUp /\ cycleCap = [s \in SessionIds |-> MultiCycles]
  \/ FourSamples /\ Constructed /\ ServerUp /\ cycleCap = [s \in SessionIds |->
                                   IF s = "A" THEN UpdateEvery - 1 + MultiCycles ELSE MultiCycles]

\* ------------------------------------------------------------- helpers
RECURSIVE CountName(_, _)
CountName(evs, n) ==
  IF evs = <<>> THEN 0
  ELSE (IF Head(evs).name = n THEN 1 ELSE 0) + CountName(Tail(evs), n)

\* Variant: io.emit (every connected socket) for socket.emit.
EmitToAll(s, evs) ==
  /\ sent' = [t \in SessionIds |-> IF t = s \/ (link[t] = "open" /\ evs # <<>>) THEN evs ELSE sent[t]]
  /\ sentCount' = [t \in SessionIds |->
                     IF t = s \/ (link[t] = "open" /\ evs # <<>>)
                       THEN [n \in EventNames |-> sentCount[t][n] + CountName(evs, n)]
                       ELSE sentCount[t]]

\* socket.emit called with each event of evs, in order, by session s.
Emit(s, evs) ==
  /\ sent' = [sent EXCEPT ![s] = evs]
  /\ sentCount' = [sentCount EXCEPT ![s] = [n \in EventNames |-> @[n] + CountName(evs, n)]]

\* `result.carbonEmission || 0`
OrZero(sample) == IF sample.present THEN sample.carbonEmission ELSE 0

\* Variant: `carbonAccumulator = result.carbonEmission || 0` (assignment for +=).
AccumulateOverwrites(acc, sample) == OrZero(sample)

\* `carbonAccumulator += result.carbonEmission || 0`
Accumulate(acc, sample) == acc + OrZero(sample)

\* Variant: the cadence test made before the counter is incremented.
ShouldPushOffByOne(cnt, acc) == cnt # 0 /\ (cnt - 1) % UpdateEvery = 0 /\ acc > 0

\* `socket.sampleCount && socket.sampleCount % 5 === 0 && carbonAccumulator > 0`
ShouldPush(cnt, acc) == cnt # 0 /\ cnt % UpdateEvery = 0 /\ acc > 0

\* Variant: measureOnce without its catch; a failure rejects startLoop.
AfterMeasureUncaught(failed) == IF failed THEN "exited" ELSE "pause"

\* Where a startLoop invocation stands after `await measureOnce()`: measureOnce
\* catches every exception of the cycle, so the loop always reaches its pause.
AfterMeasure(failed) == "pause"

\* The 'measurement' payload (the usage fields are not modelled).
MeasurementEvent(sample) ==
  [name |-> "measurement", present |-> sample.present, carbonEmission |-> sample.carbonEmission]

\* Variant: the payload built from the accumulator as it was before this sample.
EsgUpdateEventStale(accBefore, acc) ==
  [name |-> "esgUpdate", carbonAccumulated |-> accBefore]

\* The 'esgUpdate' payload: { esgScore, financialImpact, carbonAccumulated }.
\* esgScore and financialImpact are computed from the accumulator by
\* calculateESGScore / calculateFinancialImpact, which do not throw on numbers,
\* so the inner catch (line 306) is never taken; only carbonAccumulated is kept.
EsgUpdateEvent(accBefore, acc) ==
  [name |-> "esgUpdate", carbonAccumulated |-> acc]

ErrorEvent == [name |-> "error", message |-> "Measurement failed"]

\* A new cycle may begin only below the model's cycle bound.
CanBegin(s) == beginCalls[s] < cycleCap[s]


\* Truth value as a number, for the history counters.
B2N(b) == IF b THEN 1 ELSE 0

\* ------------------------------------------------- connection callback
\* io.on('connection', async (socket) => { ... await nodeCarbon.getEnergyInfo()
Connect(s) ==
  /\ link[s] = "none"
  /\ link' = [link EXCEPT ![s] = "open"]
  /\ phase' = [phase EXCEPT ![s] = "lookup"]
  /\ Emit(s, <<>>)
  /\ UNCHANGED <<energyInfo, isClosed, loopActive, loops, carbonAccumulator, sampleCount>>
  /\ UNCHANGED histVars
  /\ UNCHANGED <<monVars, apiVars>>

\* getEnergyInfo() settles: the callback emits energyInfo (the looked-up value or
\* the default), the initial esgScore and esgFinancialImpact, initialises
\* isClosed / loopActive and registers the three handlers.
LookupReturns(s, ok) ==
  /\ phase[s] = "lookup"
  /\ phase' = [phase EXCEPT ![s] = "ready"]
  /\ energyInfo' = [energyInfo EXCEPT ![s] = IF ok THEN "looked_up" ELSE "fallback"]
  /\ isClosed' = [isClosed EXCEPT ![s] = FALSE]
  /\ loopActive' = [loopActive EXCEPT ![s] = FALSE]
  /\ Emit(s, << [name |-> "energyInfo"], [name |-> "esgScore"], [name |-> "esgFinancialImpact"] >>)
  /\ UNCHANGED <<link, loops, carbonAccumulator, sampleCount>>
  /\ UNCHANGED histVars
  /\ UNCHANGED <<monVars, apiVars>>

\* The earlier server variant (its io.on('connection'), lines 100-141 and
\* 209-211): the looked-up value is emitted and used inside the try; when
\* getEnergyInfo() rejects, the catch emits 'error' ("Failed to load energy
\* info") and no energyInfo, esgScore or esgFinancialImpact; the handlers are
\* registered either way.
EarlierLookupReturns(s, ok) ==
  /\ phase[s] = "lookup"
  /\ phase' = [phase EXCEPT ![s] = "ready"]
  /\ energyInfo' = [energyInfo EXCEPT ![s] = IF ok THEN "looked_up" ELSE "unavailable"]
  /\ isClosed' = [isClosed EXCEPT ![s] = FALSE]
  /\ loopActive' = [loopActive EXCEPT ![s] = FALSE]
  /\ IF ok
       THEN Emit(s, << [name |-> "energyInfo"], [name |-> "esgScore"], [name |-> "esgFinancialImpact"] >>)
       ELSE Emit(s, << [name |-> "error", message |-> "Failed to load energy info"] >>)
  /\ UNCHANGED <<link, loops, carbonAccumulator, sampleCount>>
  /\ UNCHANGED histVars
  /\ UNCHANGED <<monVars, apiVars>>

\* ---------------------------------------------------------------- signals
\* The observer sends start while the connection callback still awaits
\* getEnergyInfo(): socket.on('start', ...) (line 325) has not run yet, the
\* socket has no listener for the event and the signal is dropped.  (A stop
\* sent at that moment is dropped the same way and changes nothing at all.)
StartUnheard(s) ==
  /\ link[s] = "open" /\ phase[s] = "lookup"
  /\ startSent' = [startSent EXCEPT ![s] = TRUE]
  /\ Emit(s, <<>>)
  /\ UNCHANGED <<connVars, isClosed, loopActive, loops, carbonAccumulator, sampleCount>>
  /\ UNCHANGED <<beginCalls, okSamples, cyclesAfterStop, measAfterStop, extraStart, stopSeen, cycleCap>>
  /\ UNCHANGED <<monVars, apiVars>>

\* Variant: startLoop without `if (loopActive) return`.
StartWithoutGuard(s) ==
  /\ link[s] = "open" /\ phase[s] = "ready"
  /\ extraStart' = [extraStart EXCEPT ![s] = @ \/ loopActive[s]]
  /\ loopActive' = [loopActive EXCEPT ![s] = TRUE]
  /\ IF isClosed[s]
       THEN /\ loops' = [loops EXCEPT ![s] = Append(@, "exited")]
            /\ UNCHANGED beginCalls
       ELSE /\ CanBegin(s)
            /\ loops' = [loops EXCEPT ![s] = Append(@, "starting")]
            /\ beginCalls' = [beginCalls EXCEPT ![s] = @ + 1]
  /\ Emit(s, <<>>)
  /\ UNCHANGED <<connVars, isClosed, carbonAccumulator, sampleCount>>
  /\ startSent' = [startSent EXCEPT ![s] = TRUE]
  /\ UNCHANGED <<okSamples, cyclesAfterStop, measAfterStop, stopSeen, cycleCap>>
  /\ UNCHANGED <<monVars, apiVars>>

\* Variant: `do { ... } while (!isClosed)`; the first cycle runs unconditionally.
StartDoWhile(s) ==
  /\ link[s] = "open" /\ phase[s] = "ready"
  /\ extraStart' = [extraStart EXCEPT ![s] = @ \/ loopActive[s]]
  /\ IF loopActive[s]
       THEN UNCHANGED <<loopActive, loops, beginCalls>>
       ELSE /\ loopActive' = [loopActive EXCEPT ![s] = TRUE]
            /\ CanBegin(s)
            /\ loops' = [loops EXCEPT ![s] = Append(@, "starting")]
            /\ beginCalls' = [beginCalls EXCEPT ![s] = @ + 1]
  /\ Emit(s, <<>>)
  /\ UNCHANGED <<connVars, isClosed, carbonAccumulator, sampleCount>>
  /\ startSent' = [startSent EXCEPT ![s] = TRUE]
  /\ UNCHANGED <<okSamples, cyclesAfterStop, measAfterStop, stopSeen, cycleCap>>
  /\ UNCHANGED <<monVars, apiVars>>

\* socket.on('start', () => startLoop()), up to the first await of startLoop:
\*   if (loopActive) return; loopActive = true; while (!isClosed) { await measureOnce() ...
\* measureOnce calls nodeCarbon.start() before it first suspends.
Start(s) ==
  /\ link[s] = "open" /\ phase[s] = "ready"
  /\ extraStart' = [extraStart EXCEPT ![s] = @ \/ loopActive[s]]
  /\ IF loopActive[s]
       THEN UNCHANGED <<loopActive, loops, beginCalls>>
       ELSE /\ loopActive' = [loopActive EXCEPT ![s] = TRUE]
            /\ IF isClosed[s]
                 THEN /\ loops' = [loops EXCEPT ![s] = Append(@, "exited")]
                      /\ UNCHANGED beginCalls
                 ELSE /\ CanBegin(s)
                      /\ loops' = [loops EXCEPT ![s] = Append(@, "starting")]
                      /\ beginCalls' = [beginCalls EXCEPT ![s] = @ + 1]
  /\ Emit(s, <<>>)
  /\ UNCHANGED <<connVars, isClosed, carbonAccumulator, sampleCount>>
  /\ startSent' = [startSent EXCEPT ![s] = TRUE]
  /\ UNCHANGED <<okSamples, cyclesAfterStop, measAfterStop, stopSeen, cycleCap>>
  /\ UNCHANGED <<monVars, apiVars>>

\* socket.on('stop', () => { isClosed = true; })
Stop(s) ==
  /\ link[s] = "open" /\ phase[s] = "ready"
  /\ isClosed' = [isClosed EXCEPT ![s] = TRUE]
  /\ stopSeen' = [stopSeen EXCEPT ![s] = TRUE]
  /\ Emit(s, <<>>)
  /\ UNCHANGED <<connVars, loopActive, loops, carbonAccumulator, sampleCount>>
  /\ UNCHANGED <<beginCalls, okSamples, cyclesAfterStop, measAfterStop, extraStart, startSent, cycleCap>>
  /\ UNCHANGED <<monVars, apiVars>>

\* Variant: no disconnect handler.
DisconnectUnhandled(s) ==
  /\ link[s] = "open"
  /\ link' = [link EXCEPT ![s] = "gone"]
  /\ Emit(s, <<>>)
  /\ UNCHANGED <<phase, energyInfo, isClosed, loopActive, loops, carbonAccumulator, sampleCount>>
  /\ UNCHANGED histVars
  /\ UNCHANGED <<monVars, apiVars>>

\* The transport closes; socket.on('disconnect', () => { isClosed = true; }) runs
\* when the handler is already registered.
Disconnect(s) ==
  /\ link[s] = "open"
  /\ link' = [link EXCEPT ![s] = "gone"]
  /\ isClosed' = [isClosed EXCEPT ![s] = IF phase[s] = "ready" THEN TRUE ELSE @]
  /\ Emit(s, <<>>)
  /\ UNCHANGED <<phase, energyInfo, loopActive, loops, carbonAccumulator, sampleCount>>
  /\ UNCHANGED histVars
  /\ UNCHANGED <<monVars, apiVars>>

\* ------------------------------------------------------------ loop steps
\* `await nodeCarbon.start()` resolves: measureOnce arms the settle timer.
BeginReturns(s, i) ==
  /\ i \in DOMAIN loops[s] /\ loops[s][i] = "starting"
  /\ loops' = [loops EXCEPT ![s][i] = "settle"]
  /\ Emit(s, <<>>)
  /\ UNCHANGED <<connVars, isClosed, loopActive, carbonAccumulator, sampleCount>>
  /\ UNCHANGED histVars
  /\ UNCHANGED <<monVars, apiVars>>

\* `await nodeCarbon.start()` rejects: the catch of measureOnce emits 'error',
\* measureOnce returns and startLoop arms the pause timer.
BeginFails(s, i) ==
  /\ i \in DOMAIN loops[s] /\ loops[s][i] = "starting"
  /\ loops' = [loops EXCEPT ![s][i] = AfterMeasure(TRUE)]
  /\ Emit(s, <<ErrorEvent>>)
  /\ cyclesAfterStop' = [cyclesAfterStop EXCEPT ![s] = @ + B2N(isClosed[s])]
  /\ UNCHANGED <<connVars, isClosed, loopActive, carbonAccumulator, sampleCount>>
  /\ UNCHANGED <<beginCalls, okSamples, measAfterStop, extraStart, stopSeen, startSent, cycleCap>>
  /\ UNCHANGED <<monVars, apiVars>>

\* Variant: a sampler call that blocks the event loop, so that no timer fires
\* while a call of another connection is outstanding.
SettleTimerBlocked(s, i) ==
  /\ i \in DOMAIN loops[s] /\ loops[s][i] = "settle"
  /\ \A t \in SessionIds \ {s} : \A j \in DOMAIN loops[t] : loops[t][j] # "starting"
  /\ loops' = [loops EXCEPT ![s][i] = "stopping"]
  /\ Emit(s, <<>>)
  /\ UNCHANGED <<connVars, isClosed, loopActive, carbonAccumulator, sampleCount>>
  /\ UNCHANGED histVars
  /\ UNCHANGED <<monVars, apiVars>>

\* Variant: the flag is also tested after the settle delay and the cycle dropped.
SettleTimerAborts(s, i) ==
  /\ i \in DOMAIN loops[s] /\ loops[s][i] = "settle"
  /\ loops' = [loops EXCEPT ![s][i] = IF isClosed[s] THEN "exited" ELSE "stopping"]
  /\ Emit(s, <<>>)
  /\ UNCHANGED <<connVars, isClosed, loopActive, carbonAccumulator, sampleCount>>
  /\ UNCHANGED histVars
  /\ UNCHANGED <<monVars, apiVars>>

\* The settle timer fires: measureOnce calls nodeCarbon.stop().
SettleTimer(s, i) ==
  /\ i \in DOMAIN loops[s] /\ loops[s][i] = "settle"
  /\ loops' = [loops EXCEPT ![s][i] = "stopping"]
  /\ Emit(s, <<>>)
  /\ UNCHANGED <<connVars, isClosed, loopActive, carbonAccumulator, sampleCount>>
  /\ UNCHANGED histVars
  /\ UNCHANGED <<monVars, apiVars>>

\* `await nodeCarbon.stop()` rejects (or resolves with no object at all, so that
\* reading result.carbonEmission throws): 'error' is emitted, nothing else changes.
EndRejects(s, i) ==
  /\ i \in DOMAIN loops[s] /\ loops[s][i] = "stopping"
  /\ loops' = [loops EXCEPT ![s][i] = AfterMeasure(TRUE)]
  /\ Emit(s, <<ErrorEvent>>)
  /\ cyclesAfterStop' = [cyclesAfterStop EXCEPT ![s] = @ + B2N(isClosed[s])]
  /\ UNCHANGED <<connVars, isClosed, loopActive, carbonAccumulator, sampleCount>>
  /\ UNCHANGED <<beginCalls, okSamples, measAfterStop, extraStart, stopSeen, startSent, cycleCap>>
  /\ UNCHANGED <<monVars, apiVars>>

\* `await nodeCarbon.stop()` resolves with a result object: lines 250-309.
\* The accumulator and the counter are updated first; building the measurement
\* payload then reads result.cpuUsageInfo.* and result.memoryUsageInfo.*, which
\* throws on a result lacking them, and the catch emits 'error'.
EndResolves(s, i, sample) ==
  /\ i \in DOMAIN loops[s] /\ loops[s][i] = "stopping"
  /\ LET acc == Accumulate(carbonAccumulator[s], sample)
         cnt == sampleCount[s] + 1
     IN  /\ carbonAccumulator' = [carbonAccumulator EXCEPT ![s] = acc]
         /\ sampleCount' = [sampleCount EXCEPT ![s] = cnt]
         /\ IF sample.wellFormed
              THEN /\ Emit(s, <<MeasurementEvent(sample)>> \o
                              (IF ShouldPush(cnt, acc)
                                 THEN <<EsgUpdateEvent(carbonAccumulator[s], acc)>>
                                 ELSE <<>>))
                   /\ okSamples' = [okSamples EXCEPT ![s] = @ (+) SetToBag({OrZero(sample)})]
                   /\ measAfterStop' = [measAfterStop EXCEPT ![s] = @ + B2N(isClosed[s])]
                   /\ loops' = [loops EXCEPT ![s][i] = AfterMeasure(FALSE)]
              ELSE /\ Emit(s, <<ErrorEvent>>)
                   /\ UNCHANGED <<okSamples, measAfterStop>>
                   /\ loops' = [loops EXCEPT ![s][i] = AfterMeasure(TRUE)]
  /\ cyclesAfterStop' = [cyclesAfterStop EXCEPT ![s] = @ + B2N(isClosed[s])]
  /\ UNCHANGED <<connVars, isClosed, loopActive, beginCalls, extraStart, stopSeen, startSent, cycleCap>>
  /\ UNCHANGED <<monVars, apiVars>>

\* Variant: `while (true)`.
PauseTimerIgnoresFlag(s, i) ==
  /\ i \in DOMAIN loops[s] /\ loops[s][i] = "pause"
  /\ CanBegin(s)
  /\ loops' = [loops EXCEPT ![s][i] = "starting"]
  /\ beginCalls' = [beginCalls EXCEPT ![s] = @ + 1]
  /\ Emit(s, <<>>)
  /\ UNCHANGED <<connVars, isClosed, loopActive, carbonAccumulator, sampleCount>>
  /\ UNCHANGED <<okSamples, cyclesAfterStop, measAfterStop, extraStart, stopSeen, startSent, cycleCap>>
  /\ UNCHANGED <<monVars, apiVars>>

\* The earlier server variant, measureOnce lines 148-193: the accumulator is
\* updated, the measurement is emitted (building its payload throws on a result
\* lacking the usage objects), and an esgUpdate is pushed in every cycle whose
\* accumulator exceeds 0.001 (any positive whole quantity).  No sample counter.
EarlierEndResolves(s, i, sample) ==
  /\ i \in DOMAIN loops[s] /\ loops[s][i] = "stopping"
  /\ LET acc == Accumulate(carbonAccumulator[s], sample)
     IN  /\ carbonAccumulator' = [carbonAccumulator EXCEPT ![s] = acc]
         /\ IF sample.wellFormed
              THEN /\ Emit(s, <<MeasurementEvent(sample)>> \o
                              (IF acc > 0
                                 THEN <<EsgUpdateEvent(carbonAccumulator[s], acc)>>
                                 ELSE <<>>))
                   /\ okSamples' = [okSamples EXCEPT ![s] = @ (+) SetToBag({OrZero(sample)})]
                   /\ measAfterStop' = [measAfterStop EXCEPT ![s] = @ + B2N(isClosed[s])]
                   /\ loops' = [loops EXCEPT ![s][i] = AfterMeasure(FALSE)]
              ELSE /\ Emit(s, <<ErrorEvent>>)
                   /\ UNCHANGED <<okSamples, measAfterStop>>
                   /\ loops' = [loops EXCEPT ![s][i] = AfterMeasure(TRUE)]
  /\ cyclesAfterStop' = [cyclesAfterStop EXCEPT ![s] = @ + B2N(isClosed[s])]
  /\ UNCHANGED <<connVars, isClosed, loopActive, sampleCount, beginCalls, extraStart, stopSeen, startSent, cycleCap>>
  /\ UNCHANGED <<monVars, apiVars>>

\* The pause timer fires: `while (!isClosed)` is evaluated; the loop either ends
\* or calls measureOnce again, which calls nodeCarbon.start().
PauseTimer(s, i) ==
  /\ i \in DOMAIN loops[s] /\ loops[s][i] = "pause"
  /\ IF isClosed[s]
       THEN /\ loops' = [loops EXCEPT ![s][i] = "exited"]
            /\ UNCHANGED beginCalls
       ELSE /\ CanBegin(s)
            /\ loops' = [loops EXCEPT ![s][i] = "starting"]
            /\ beginCalls' = [beginCalls EXCEPT ![s] = @ + 1]
  /\ Emit(s, <<>>)
  /\ UNCHANGED <<connVars, isClosed, loopActive, carbonAccumulator, sampleCount>>
  /\ UNCHANGED <<okSamples, cyclesAfterStop, measAfterStop, extraStart, stopSeen, startSent, cycleCap>>
  /\ UNCHANGED <<monVars, apiVars>>

\* Indices a loop step can be taken at (one more than the launched loops is
\* never a loop; the range only has to cover DOMAIN loops[s]).
LoopIds == 1..2

\* ------------------------------------------------------- specifications
\* One connection, A.
Next ==
  \/ Connect("A")
  \/ \E ok \in BOOLEAN : LookupReturns("A", ok)
  \/ StartUnheard("A")
  \/ Start("A")
  \/ Stop("A")
  \/ Disconnect("A")
  \/ \E i \in LoopIds : BeginReturns("A", i)
  \/ \E i \in LoopIds : BeginFails("A", i)
  \/ \E i \in LoopIds : SettleTimer("A", i)
  \/ \E i \in LoopIds : EndRejects("A", i)
  \/ \E i \in LoopIds, sample \in Samples : EndResolves("A", i, sample)
  \/ \E i \in LoopIds : PauseTimer("A", i)

Spec == Init /\ [][Next]_vars

\* Every sampler call returns and every timer fires (the assumption of the
\* termination claims); the observer's signals are not forced.
LoopStep(s) ==
  \E i \in LoopIds :
    \/ BeginReturns(s, i) \/ BeginFails(s, i) \/ SettleTimer(s, i)
    \/ EndRejects(s, i) \/ (\E sample \in Samples : EndResolves(s, i, sample))
    \/ PauseTimer(s, i)

FairSpec == FairInit /\ [][Next]_vars /\ WF_vars(LoopStep("A"))

\* Two connections at once.  Their samples carry the largest quantity.
MultiSamples == {x \in Samples : x.present /\ x.carbonEmission = MaxEmission}

MultiNext ==
  \E s \in SessionIds :
    \/ Connect(s)
    \/ \E ok \in BOOLEAN : LookupReturns(s, ok)
    \/ StartUnheard(s)
    \/ Start(s)
    \/ Stop(s)
    \/ Disconnect(s)
    \/ \E i \in LoopIds : BeginReturns(s, i)
    \/ \E i \in LoopIds : BeginFails(s, i)
    \/ \E i \in LoopIds : SettleTimer(s, i)
    \/ \E i \in LoopIds : EndRejects(s, i)
    \/ \E i \in LoopIds, sample \in MultiSamples : EndResolves(s, i, sample)
    \/ \E i \in LoopIds : PauseTimer(s, i)

MultiSpec == MultiInit /\ [][MultiNext]_vars

\* Two connections; nodeCarbon.start() of A never returns (A has no loop step).
HangNext ==
  \/ \E s \in SessionIds : Connect(s)
  \/ \E s \in SessionIds, ok \in BOOLEAN : LookupReturns(s, ok)
  \/ \E s \in SessionIds : Start(s)
  \/ \E s \in SessionIds : Stop(s)
  \/ \E s \in SessionIds : Disconnect(s)
  \/ \E i \in LoopIds : BeginReturns("B", i)
  \/ \E i \in LoopIds : BeginFails("B", i)
  \/ \E i \in LoopIds : SettleTimer("B", i)
  \/ \E i \in LoopIds : EndRejects("B", i)
  \/ \E i \in LoopIds, sample \in MultiSamples : EndResolves("B", i, sample)
  \/ \E i \in LoopIds : PauseTimer("B", i)

HangInit == NoSession /\ Constructed /\ ServerUp /\ cycleCap = [s \in SessionIds |-> FairCycles]

\* The sampler calls of B return and its timers fire.
HangSpec == HangInit /\ [][HangNext]_vars /\ WF_vars(LoopStep("B"))

\* The earlier server variant, one connection.
EarlierNext ==
  \/ Connect("A")
  \/ \E ok \in BOOLEAN : EarlierLookupReturns("A", ok)
  \/ StartUnheard("A")
  \/ Start("A")
  \/ Stop("A")
  \/ Disconnect("A")
  \/ \E i \in LoopIds : BeginReturns("A", i)
  \/ \E i \in LoopIds : BeginFails("A", i)
  \/ \E i \in LoopIds : SettleTimer("A", i)
  \/ \E i \in LoopIds : EndRejects("A", i)
  \/ \E i \in LoopIds, sample \in Samples : EarlierEndResolves("A", i, sample)
  \/ \E i \in LoopIds : PauseTimer("A", i)

EarlierSpec == EarlierInit /\ [][EarlierNext]_vars

\* ---------------------------------------------- SecurityMonitor entry points
Monitor == [securityEvents |-> securityEvents, threatLevel |-> threatLevel, logged |-> logged]

\* The monitor state becomes m.
Becomes(m) ==
  /\ securityEvents' = m.securityEvents
  /\ threatLevel' = m.threatLevel
  /\ logged' = m.logged

\* A caller invokes logEvent(type, severity, details).
LogEvent(type, severity) ==
  /\ Becomes(logEvent(Monitor, type, severity))
  /\ UNCHANGED <<connectionAttempts, suspiciousActivity>>
  /\ UNCHANGED <<sessVars, apiVars>>

\* monitorConnection(ip, userAgent).  (`call` in the suspiciousActivity entry is
\* history: the number of the logEvent call that logged the event pushed with it.)
MonitorConnection(ip) ==
  LET attempts == connectionAttempts[ip]
      m1 == IF attempts > 10 THEN logEvent(Monitor, "suspicious_connection", "high") ELSE Monitor
      m2 == IF attempts = 1 THEN logEvent(m1, "connection", "low") ELSE m1
  IN  /\ connectionAttempts' = [connectionAttempts EXCEPT ![ip] = attempts + 1]
      /\ suspiciousActivity' =
           IF attempts > 10
             THEN Append(suspiciousActivity,
                         [type |-> "rate_limit_exceeded", ip |-> ip, call |-> Len(logged) + 1])
             ELSE suspiciousActivity
      /\ Becomes(m2)
      /\ UNCHANGED <<sessVars, apiVars>>

\* monitorAPIRequest(endpoint, method, statusCode)
MonitorAPIRequest(endpoint, statusCode) ==
  LET m1 == IF statusCode = 401 \/ statusCode = 403
              THEN logEvent(Monitor, "unauthorized_access_attempt", "medium") ELSE Monitor
      m2 == IF statusCode >= 500 THEN logEvent(m1, "server_error", "medium") ELSE m1
      m3 == IF Includes(endpoint, "'") \/ Includes(endpoint, "--") \/ Includes(endpoint, ";")
              THEN logEvent(m2, "potential_sql_injection", "high") ELSE m2
      m4 == IF Includes(endpoint, "<script>") \/ Includes(endpoint, "javascript:")
              THEN logEvent(m3, "potential_xss", "high") ELSE m3
  IN  /\ Becomes(m4)
      /\ UNCHANGED <<connectionAttempts, suspiciousActivity>>
      /\ UNCHANGED <<sessVars, apiVars>>

\* ------------------------------------------------ SecurityMonitor queries
\* array.slice(start): a negative start counts from the end, and -0 is 0.
Slice(seq, start) ==
  LET len == Len(seq)
      from == IF start < 0 THEN (IF len + start < 0 THEN 0 ELSE len + start)
              ELSE (IF start > len THEN len ELSE start)
  IN  SubSeq(seq, from + 1, len)

\* array.reverse()
Reverse(seq) == [k \in 1..Len(seq) |-> seq[Len(seq) + 1 - k]]

\* getRecentEvents(limit): this.securityEvents.slice(-limit).reverse()
getRecentEvents(events, limit) == Reverse(Slice(events, -limit))

\* recentEvents.filter(e => e.severity === severity).length
CountSeverity(recentEvents, severity) ==
  Cardinality({k \in DOMAIN recentEvents : recentEvents[k].severity = severity})

\* getSecurityStats(): the fields getSecurityHealthScore reads, and the sizes.
getSecurityStats ==
  LET recentEvents == Slice(securityEvents, -StatsWindow)
  IN  [ totalEvents |-> Len(securityEvents),
        recentEvents |-> Len(recentEvents),
        threatLevel |-> threatLevel,
        eventsBySeverity |-> [severity \in Severities |-> CountSeverity(recentEvents, severity)],
        suspiciousActivity |-> Len(suspiciousActivity) ]

\* Math.max(0, Math.min(100, score))
Clamp(score) == IF score < 0 THEN 0 ELSE IF score > 100 THEN 100 ELSE score

\* getSecurityHealthScore()
getSecurityHealthScore ==
  LET stats == getSecurityStats
  IN  Clamp(100 - stats.eventsBySeverity["high"] * 5
                - stats.eventsBySeverity["critical"] * 10
                - stats.suspiciousActivity * 3)

\* The suspiciousActivity entries whose event is still in the window
\* getSecurityStats reads.
SuspiciousInWindow ==
  LET recentEvents == Slice(securityEvents, -StatsWindow)
  IN  Cardinality({k \in DOMAIN suspiciousActivity :
                     \E j \in DOMAIN recentEvents :
                       recentEvents[j].call = suspiciousActivity[k].call})

\* A caller reads the health score.  (History in the reply: the counts over the
\* window at the time of the call.)
GetSecurityHealthScore ==
  /\ reply' = [ op |-> "health-score",
                score |-> getSecurityHealthScore,
                high |-> getSecurityStats.eventsBySeverity["high"],
                critical |-> getSecurityStats.eventsBySeverity["critical"],
                suspicious |-> SuspiciousInWindow,
                flagged |-> Len(suspiciousActivity) ]
  /\ UNCHANGED <<esgModel, scored, userId, page>>
  /\ UNCHANGED <<sessVars, monVars>>

\* A caller reads the recent events.  (History in the reply: the limit and the
\* log at the time of the call.)
GetRecentEvents(limit) ==
  /\ reply' = [ op |-> "recent-events",
                limit |-> limit,
                events |-> getRecentEvents(securityEvents, limit),
                log |-> securityEvents ]
  /\ UNCHANGED <<esgModel, scored, userId, page>>
  /\ UNCHANGED <<sessVars, monVars>>

\* No connection is made: the model steps the aggregator or the HTTP routes only.
MonitorInit == NoSession /\ Constructed /\ ServerUp /\ cycleCap = [s \in SessionIds |-> 0]

\* ------------------------------------------------------------ ESG API
\* Variant: the handler weighs the total with this.esgWeights.environmental
\* (relative to its initial 0.4) and halves that weight for the next call.
ApiCalculateWeighing(metrics) ==
  LET score == calculateESGScore(metrics)
      w == esgModel.esgWeights.environmental
      data == [score EXCEPT !.overall = MathRound(Times(Num(@), Times(w, Frac(10, 4))))]
  IN  /\ reply' = [op |-> "calculate", status |-> 200, success |-> TRUE, data |-> data,
                    metrics |-> metrics, again |-> scored[metrics] # {}, after |-> reply.op]
      /\ scored' = [scored EXCEPT ![metrics] = @ \cup {data}]
      /\ esgModel' = [esgModel EXCEPT !.esgWeights.environmental = Over(w, 2)]
      /\ UNCHANGED <<userId, page>>
      /\ UNCHANGED <<sessVars, monVars>>

\* POST /api/esg/calculate with body { metrics }: calculateESGScore(metrics || {})
\* never throws for a metrics object, the handler answers success with its result.
\* (History in the reply: the metrics, whether this vector was scored before,
\* and the kind of the request answered just before this one.)
ApiCalculate(metrics) ==
  LET data == calculateESGScore(metrics)
  IN  /\ reply' = [op |-> "calculate", status |-> 200, success |-> TRUE, data |-> data,
                    metrics |-> metrics, again |-> scored[metrics] # {}, after |-> reply.op]
      /\ scored' = [scored EXCEPT ![metrics] = @ \cup {data}]
      /\ UNCHANGED <<esgModel, userId, page>>
      /\ UNCHANGED <<sessVars, monVars>>

\* POST /api/esg/financial-impact with body { esgScore, revenue, carbonEmissions }:
\* nothing in the try block throws for numbers, the handler answers success.
\* (History in the reply: the body and the arguments passed on.)
ApiFinancialImpact(body) ==
  LET args == [ esgScore |-> OrDefault(body.esgScore, 50),
                revenue |-> OrDefault(body.revenue, 1000000),
                carbonEmissions |-> OrDefault(body.carbonEmissions, 100) ]
      impact == calculateFinancialImpact(args.esgScore, args.revenue, args.carbonEmissions)
  IN  /\ reply' = [op |-> "financial-impact", status |-> 200, success |-> TRUE,
                    body |-> body, args |-> args, data |-> impact]
      /\ UNCHANGED <<esgModel, scored, userId, page>>
      /\ UNCHANGED <<sessVars, monVars>>

\* A caller assesses the risk of the score of a metrics vector:
\* assessESGRisk(calculateESGScore(metrics)).  (History in the reply: the metrics.)
AssessESGRisk(metrics) ==
  /\ reply' = [ op |-> "risk", metrics |-> metrics,
                data |-> assessESGRisk(calculateESGScore(metrics)) ]
  /\ UNCHANGED <<esgModel, scored, userId, page>>
  /\ UNCHANGED <<sessVars, monVars>>

\* Scores are calculated and their risk assessed, in any order.
RiskNext ==
  \/ \E metrics \in MetricsVectors : ApiCalculate(metrics)
  \/ \E metrics \in MetricsVectors : AssessESGRisk(metrics)

RiskSpec == MonitorInit /\ [][RiskNext]_vars

EsgNext ==
  \/ \E metrics \in MetricsVectors : ApiCalculate(metrics)
  \/ \E body \in ImpactBodies : ApiFinancialImpact(body)

EsgSpec == MonitorInit /\ [][EsgNext]_vars

\* ------------------------------------------------- pages and auth routes
\* user._id of the one account of the model.
UserIds == {"u1"}

\* GET /: res.redirect('/dashboard')
GetRoot(v) ==
  /\ page' = [page EXCEPT ![v] = [file |-> "redirect:/dashboard", userId |-> userId[v]]]
  /\ UNCHANGED <<esgModel, reply, scored, userId>>
  /\ UNCHANGED <<sessVars, monVars>>

\* GET /dashboard (typed, or following the redirect of GET /): the route has no
\* requireAuth in front of it, res.sendFile(index.html).
GetDashboard(v) ==
  /\ page' = [page EXCEPT ![v] = [file |-> "index.html", userId |-> userId[v]]]
  /\ UNCHANGED <<esgModel, reply, scored, userId>>
  /\ UNCHANGED <<sessVars, monVars>>

\* GET /login and GET /signup: res.sendFile(login.html)
GetLogin(v) ==
  /\ page' = [page EXCEPT ![v] = [file |-> "login.html", userId |-> userId[v]]]
  /\ UNCHANGED <<esgModel, reply, scored, userId>>
  /\ UNCHANGED <<sessVars, monVars>>

\* POST /api/auth/signup.  accepted: the body passes the validation, no such
\* user exists and user.save() succeeds (the User model is outside the
\* sources, its answers are inputs).  The handler writes the session only after
\* its last await, so it is one step.
Signup(v, accepted, id) ==
  /\ userId' = IF accepted THEN [userId EXCEPT ![v] = id] ELSE userId
  /\ reply' = [op |-> "signup", status |-> IF accepted THEN 200 ELSE 400, success |-> accepted]
  /\ UNCHANGED <<esgModel, scored, page>>
  /\ UNCHANGED <<sessVars, monVars>>

\* POST /api/auth/login.  accepted: the user is found and comparePassword
\* returns true.
Login(v, accepted, id) ==
  /\ userId' = IF accepted THEN [userId EXCEPT ![v] = id] ELSE userId
  /\ reply' = [op |-> "login", status |-> IF accepted THEN 200 ELSE 401, success |-> accepted]
  /\ UNCHANGED <<esgModel, scored, page>>
  /\ UNCHANGED <<sessVars, monVars>>

\* POST /api/auth/logout: req.session.destroy(...)
Logout(v) ==
  /\ userId' = [userId EXCEPT ![v] = "none"]
  /\ reply' = [op |-> "logout", status |-> 200, success |-> TRUE]
  /\ UNCHANGED <<esgModel, scored, page>>
  /\ UNCHANGED <<sessVars, monVars>>

AuthInit == NoSession /\ Constructed /\ ServerUp /\ cycleCap = [s \in SessionIds |-> AuthCycles]

\* Visitor A requests pages, signs up, logs in and out, and A's browser opens
\* the socket connection, in any order.
AuthNext ==
  \/ GetRoot("A")
  \/ GetDashboard("A")
  \/ GetLogin("A")
  \/ \E accepted \in BOOLEAN, id \in UserIds : Signup("A", accepted, id)
  \/ \E accepted \in BOOLEAN, id \in UserIds : Login("A", accepted, id)
  \/ Logout("A")
  \/ Connect("A")
  \/ \E ok \in BOOLEAN : LookupReturns("A", ok)
  \/ StartUnheard("A")
  \/ Start("A")
  \/ Stop("A")
  \/ Disconnect("A")
  \/ \E i \in LoopIds : BeginReturns("A", i)
  \/ \E i \in LoopIds : BeginFails("A", i)
  \/ \E i \in LoopIds : SettleTimer("A", i)
  \/ \E i \in LoopIds : EndRejects("A", i)
  \/ \E i \in LoopIds, sample \in MultiSamples : EndResolves("A", i, sample)
  \/ \E i \in LoopIds : PauseTimer("A", i)

AuthSpec == AuthInit /\ [][AuthNext]_vars

\* Callers log events of every severity directly.
LogNext ==
  /\ Len(logged) < MaxLogCalls
  /\ \E severity \in Severities : LogEvent("event", severity)

LogSpec == MonitorInit /\ [][LogNext]_vars

\* Connections and request handlers call the monitor in any order; each call
\* runs to completion (the monitor is synchronous).
MonitorNext ==
  /\ Len(logged) < MaxMonitorLogs
  /\ \/ \E ip \in IPs : connectionAttempts[ip] < MaxAttempts /\ MonitorConnection(ip)
     \/ \E r \in Requests : MonitorAPIRequest(r.endpoint, r.statusCode)
     \/ LogEvent("event", "critical")

MonitorSpec == MonitorInit /\ [][MonitorNext]_vars

\* The address that floods the server with connections.
Flooder == "10.0.0.1"

\* One address connects over and over while other callers log events; the
\* health score is read at any time.
HealthNext ==
  \/ /\ Len(logged) < MaxHealthLogs
     /\ connectionAttempts[Flooder] < RateCalls
     /\ MonitorConnection(Flooder)
  \/ /\ Len(logged) < MaxHealthLogs
     /\ \E severity \in {"low", "critical"} : LogEvent("event", severity)
  \/ GetSecurityHealthScore

HealthSpec == MonitorInit /\ [][HealthNext]_vars

\* Events are logged and the recent events are read with limits from 0 up.
QueryNext ==
  \/ /\ Len(logged) < MaxQueryLogs
     /\ \E severity \in {"low", "high"} : LogEvent("event", severity)
  \/ \E limit \in 0..MaxLimit : GetRecentEvents(limit)

QuerySpec == MonitorInit /\ [][QueryNext]_vars

TypeOK ==
  /\ link \in [SessionIds -> {"none", "open", "gone"}]
  /\ phase \in [SessionIds -> {"none", "lookup", "ready"}]
  /\ energyInfo \in [SessionIds -> {"none", "looked_up", "fallback", "unavailable"}]
  /\ isClosed \in [SessionIds -> BOOLEAN]
  /\ loopActive \in [SessionIds -> BOOLEAN]
  /\ \A s \in SessionIds : loops[s] \in Seq(LoopPc)
  /\ carbonAccumulator \in [SessionIds -> Nat]
  /\ sampleCount \in [SessionIds -> Nat]
  /\ \A s \in SessionIds : beginCalls[s] \in 0..cycleCap[s]
  /\ Len(securityEvents) <= MaxEvents
  /\ \A k \in DOMAIN securityEvents : securityEvents[k].severity \in Severities
  /\ threatLevel \in Severities
  /\ connectionAttempts \in [IPs -> Nat]


\* ================================================================ claims
\* The startLoop invocations of s that have not returned.
ActiveLoops(s) == {i \in DOMAIN loops[s] : loops[s][i] # "exited"}

\* Events named n emitted by s so far.
Emitted(s, n) == sentCount[s][n]

\* Events named n among those of the latest step of s.
SentNow(s, n) == {k \in DOMAIN sent[s] : sent[s][k].name = n}

RECURSIVE BagSum(_)
BagSum(b) ==
  IF BagToSet(b) = {} THEN 0
  ELSE LET e == CHOOSE x \in BagToSet(b) : TRUE
       IN  e * CopiesIn(e, b) + BagSum([x \in BagToSet(b) \ {e} |-> b[x]])

\* C1: a start signal received while the session's loop is already active does
\* not launch a second loop; at most one sampling loop is active per session.
C1_AtMostOneLoop ==
  \A s \in SessionIds : Cardinality(ActiveLoops(s)) <= 1

\* A second start was handled while the loop was in the middle of a cycle.
C1_Witness ==
  \E s \in SessionIds :
    /\ extraStart[s] /\ ~isClosed[s]
    /\ Len(loops[s]) = 1 /\ loops[s][1] \in MidCycle

\* C2 as stated: from the moment stop or disconnect has been handled, no
\* measurement event is emitted any more.
C2_NoMeasurementOnceClosed ==
  [][\A s \in SessionIds :
       isClosed[s] => Emitted(s, "measurement")' = Emitted(s, "measurement")]_vars

\* C2 amended: after stop or disconnect has been handled at most one more
\* measurement event is emitted, that of the cycle in flight when the signal
\* arrived; with no cycle in flight (loop pausing, exited or never started)
\* none is emitted, whatever start signals follow.
C2_AtMostInFlightMeasurement ==
  /\ [](\A s \in SessionIds : measAfterStop[s] <= 1)
  /\ [][\A s \in SessionIds :
          (isClosed[s] /\ \A i \in DOMAIN loops[s] : loops[s][i] \notin MidCycle)
            => Emitted(s, "measurement")' = Emitted(s, "measurement")]_vars

\* The in-flight cycle reported its measurement after the stop, and the loop ended.
C2_Witness ==
  \E s \in SessionIds :
    measAfterStop[s] = 1 /\ loops[s] = <<"exited">>

\* C3: cancellation is cooperative: a cycle in flight when stop or disconnect
\* arrives runs to completion (nodeCarbon.stop() is called and its outcome
\* handled), the loop leaves only from its pause, and at most one cycle
\* completes after the stop request.
C3_CooperativeCancel ==
  /\ [](\A s \in SessionIds : cyclesAfterStop[s] <= 1)
  /\ [][\A s \in SessionIds : \A i \in DOMAIN loops[s] :
          /\ loops[s][i] = "starting" => loops'[s][i] \in {"starting", "settle", "pause"}
          /\ loops[s][i] = "settle" => loops'[s][i] \in {"settle", "stopping"}
          /\ loops[s][i] = "stopping" => loops'[s][i] \in {"stopping", "pause"}
          /\ (loops[s][i] # "exited" /\ loops'[s][i] = "exited")
               => (loops[s][i] = "pause" /\ isClosed[s])]_vars

\* Stop arrived during a cycle; the cycle completed and then the loop ended.
C3_Witness ==
  \E s \in SessionIds :
    cyclesAfterStop[s] = 1 /\ loops[s] = <<"exited">> /\ stopSeen[s]

\* C4: stopped is terminal: once stop or disconnect has been handled the flag
\* is never cleared and nodeCarbon.start() is never called again, whatever
\* start and stop signals follow (also when the stop came before any start).
C4_StoppedIsTerminal ==
  [][\A s \in SessionIds :
       isClosed[s] => (isClosed'[s] /\ beginCalls'[s] = beginCalls[s])]_vars

\* A stop came first, then a start: startLoop ran and returned without a cycle.
C4_Witness ==
  \E s \in SessionIds :
    /\ isClosed[s] /\ stopSeen[s] /\ loopActive[s]
    /\ loops[s] = <<"exited">> /\ beginCalls[s] = 0

\* C5: when the observer of a running session disconnects, the loop eventually
\* exits, in whichever phase it was, stop sent or not (sampler calls return
\* and timers fire).
C5_DisconnectEndsLoop ==
  \A s \in SessionIds : (link[s] = "gone") ~> (ActiveLoops(s) = {})

\* The loop of a disconnected session ended although stop was never sent.
C5_Witness ==
  \E s \in SessionIds :
    /\ link[s] = "gone" /\ ~stopSeen[s]
    /\ loops[s] = <<"exited">> /\ beginCalls[s] >= 1

\* C6 as stated: a cycle that emits an error event leaves the accumulated
\* emission and the sample counter as they were.
C6_FailedCycleChangesNothing ==
  [][\A s \in SessionIds :
       Emitted(s, "error")' > Emitted(s, "error")
         => /\ carbonAccumulator'[s] = carbonAccumulator[s]
            /\ sampleCount'[s] = sampleCount[s]]_vars

C9_PushCarriesCurrentTotal ==
  [][\A s \in SessionIds :
       Emitted(s, "esgUpdate")' > Emitted(s, "esgUpdate")
         => \A k \in SentNow(s, "esgUpdate")' :
              /\ sent'[s][k].carbonAccumulated = carbonAccumulator'[s]
              /\ \E m \in SentNow(s, "measurement")' :
                   sent'[s][k].carbonAccumulated =
                     carbonAccumulator[s] + (IF sent'[s][m].present THEN sent'[s][m].carbonEmission ELSE 0)]_vars

\* An update was just pushed whose triggering sample itself carried emission.
C9_Witness ==
  \E s \in SessionIds : \E k \in SentNow(s, "esgUpdate"), m \in SentNow(s, "measurement") :
    /\ sent[s][m].present /\ sent[s][m].carbonEmission > 0
    /\ sent[s][k].carbonAccumulated = carbonAccumulator[s]

\* C10: a sampling failure never ends the loop: the step that emits an error
\* leaves the loop at its pause, a pausing loop whose session is not closed
\* can only go on to call nodeCarbon.start() again, and a loop has exited only
\* if stop or disconnect was handled.
C10_FailureKeepsLoop ==
  /\ [](\A s \in SessionIds : \A i \in DOMAIN loops[s] : loops[s][i] = "exited" => isClosed[s])
  /\ [][\A s \in SessionIds : \A i \in DOMAIN loops[s] :
          /\ (Emitted(s, "error")' > Emitted(s, "error") /\ loops'[s][i] # loops[s][i])
               => loops'[s][i] = "pause"
          /\ (loops[s][i] = "pause" /\ ~isClosed[s] /\ loops'[s][i] # "pause")
               => (loops'[s][i] = "starting" /\ beginCalls'[s] = beginCalls[s] + 1)]_vars

\* After a failed first cycle the open session is measuring again.
C10_Witness ==
  \E s \in SessionIds :
    /\ Emitted(s, "error") = 1 /\ Emitted(s, "measurement") = 0
    /\ ~isClosed[s] /\ loops[s] = <<"settle">> /\ beginCalls[s] = 2

\* The private state of the connection closure of s, the events its observer
\* was sent, and what is recorded about s.
SessionState(s) ==
  << link[s], phase[s], energyInfo[s], isClosed[s], loopActive[s], loops[s],
     carbonAccumulator[s], sampleCount[s], sent[s], sentCount[s],
     beginCalls[s], okSamples[s], stopSeen[s], startSent[s] >>

\* C11: with two sessions connected at once, a step of one of them (start,
\* stop, disconnect, successful cycle, failed cycle, score push) leaves the
\* other's accumulated emission, sample counter, loop-active flag and stop
\* flag unchanged and emits nothing to the other's observer: no step changes
\* the state of two sessions.
C11_StepsOfOneSession ==
  [][\A s \in SessionIds : \A t \in SessionIds \ {s} :
       SessionState(s)' # SessionState(s) =>
         /\ carbonAccumulator'[t] = carbonAccumulator[t]
         /\ sampleCount'[t] = sampleCount[t]
         /\ loopActive'[t] = loopActive[t]
         /\ isClosed'[t] = isClosed[t]
         /\ sent'[t] = sent[t] /\ sentCount'[t] = sentCount[t]
         /\ SessionState(t)' = SessionState(t)]_vars

\* One session has just pushed its first score update and has seen a failed
\* start or none, while the other, connected and measuring, has one sample of
\* its own and was sent no score update and no error.
C11_Witness ==
  \E s \in SessionIds : \E t \in SessionIds \ {s} :
    /\ link[s] = "open" /\ link[t] = "open"
    /\ SentNow(s, "esgUpdate") # {} /\ sampleCount[s] = UpdateEvery
    /\ loopActive[t] /\ ~isClosed[t] /\ loops[t] = <<"pause">>
    /\ sampleCount[t] = 1 /\ carbonAccumulator[t] = MaxEmission
    /\ Emitted(t, "esgUpdate") = 0 /\ Emitted(t, "error") = 0

\* Cycles of s begun and not finished.
OpenCycles(s) == {i \in DOMAIN loops[s] : loops[s][i] \in MidCycle}

\* C12: when nodeCarbon.start() of one session never returns, only the loop of
\* that session stalls: a cycle any other session has begun is completed (its
\* loop reaches the pause or ends), and another session that was stopped or
\* disconnected has its loop end.
C12_HangStallsOneSession ==
  \A s \in SessionIds \ {"A"} :
    /\ \A i \in LoopIds :
         (i \in DOMAIN loops[s] /\ loops[s][i] \in MidCycle)
           ~> (i \in DOMAIN loops[s] /\ loops[s][i] \in {"pause", "exited"})
    /\ isClosed[s] ~> (ActiveLoops(s) = {})

\* A is stalled in its first nodeCarbon.start() and was sent no measurement;
\* meanwhile B completed its cycles and its loop ended after stop.
C12_Witness ==
  /\ loops["A"] = <<"starting">> /\ ~isClosed["A"]
  /\ Emitted("A", "measurement") = 0 /\ Emitted("A", "error") = 0
  /\ Emitted("B", "measurement") = FairCycles
  /\ stopSeen["B"] /\ loops["B"] = <<"exited">>

\* C13: within one session the loop is sequential. nodeCarbon.start() is never
\* called while a cycle of the session is unfinished, whatever start, stop and
\* timer events interleave; at most one cycle is unfinished, and every cycle
\* begun before it has delivered its measurement or error, so measurement
\* events are emitted in the order their cycles were started.
C13_Sequential ==
  /\ [](\A s \in SessionIds :
         /\ Cardinality(OpenCycles(s)) <= 1
         /\ beginCalls[s] = Emitted(s, "measurement") + Emitted(s, "error")
                              + Cardinality(OpenCycles(s)))
  /\ [][\A s \in SessionIds :
          beginCalls'[s] # beginCalls[s] =>
            /\ OpenCycles(s) = {}
            /\ beginCalls'[s] = beginCalls[s] + 1
            /\ Cardinality(OpenCycles(s)') = 1]_vars

\* A third cycle is in flight after two delivered measurements, and a second
\* start was handled in between.
C13_Witness ==
  \E s \in SessionIds :
    /\ extraStart[s] /\ ~isClosed[s]
    /\ beginCalls[s] = 3 /\ Emitted(s, "measurement") = 2
    /\ loops[s] = <<"stopping">>

\* C14 as stated: when the connect-time lookup fails the session gets the
\* fallback vector, the observer is sent an energyInfo value and no error event
\* for the lookup, and the session can be started afterwards (its handlers are
\* registered).
C14_LookupFailureFallsBack ==
  /\ [](\A s \in SessionIds :
         phase[s] = "ready" =>
           /\ energyInfo[s] \in {"looked_up", "fallback"}
           /\ Emitted(s, "energyInfo") = 1)
  /\ [][\A s \in SessionIds :
          (phase[s] = "lookup" /\ phase'[s] = "ready") =>
            \A k \in DOMAIN sent'[s] : sent'[s][k].name # "error"]_vars

\* C15 as stated: a start signal sent at any moment after the connection was
\* established, also while the lookup is pending, is not lost: once the
\* connection callback has finished, the loop of a session whose observer sent
\* start has been launched.
C15_StartIsNotLost ==
  \A s \in SessionIds :
    (startSent[s] /\ phase[s] = "ready") => (loopActive[s] /\ loops[s] # <<>>)

Min(a, b) == IF a <= b THEN a ELSE b

\* C16: the event log never holds more than its capacity after any logEvent;
\* once more events were logged than the capacity, it holds exactly capacity
\* events; and the retained events are always the most recently logged ones in
\* the order they were logged.
C16_RingBuffer ==
  /\ Len(securityEvents) <= MaxEvents
  /\ Len(securityEvents) = Min(Len(logged), MaxEvents)
  /\ \A k \in DOMAIN securityEvents :
       LET c == Len(logged) - Len(securityEvents) + k
       IN  /\ securityEvents[k].type = logged[c].type
           /\ securityEvents[k].severity = logged[c].severity

\* capacity + 1 events were logged, the first one critical and no other: the
\* log holds capacity events and the critical one is gone.
C16_Witness ==
  /\ Len(logged) = MaxEvents + 1
  /\ logged[1].severity = "critical"
  /\ Len(securityEvents) = MaxEvents
  /\ \A k \in DOMAIN securityEvents : securityEvents[k].severity # "critical"

\* C17 as stated: the ids assigned by logEvent are strictly increasing, so no
\* two events in the log share an id, also after the log reached its capacity
\* and evicts.
C17_IdsIncrease ==
  \A j, k \in DOMAIN securityEvents :
    j < k => securityEvents[j].id < securityEvents[k].id

\* The ladder as the specification states it.
Ladder(k) ==
  CASE k = 0 -> "low"
    [] k \in 1..2 -> "medium"
    [] k \in 3..5 -> "high"
    [] OTHER -> "critical"

\* High or critical events among the ThreatWindow most recent log entries.
RecentHigh ==
  Cardinality({j \in DOMAIN securityEvents :
                 /\ j > Len(securityEvents) - ThreatWindow
                 /\ securityEvents[j].severity \in {"high", "critical"}})

\* C18: in every reachable state (initially and after every logEvent, also one
\* that evicts) the stored threat level is the ladder applied to the number of
\* high or critical events among the most recent window of log entries.
C18_LevelIsDerived == threatLevel = Ladder(RecentHigh)

\* The log is full and has evicted; the high events logged first (the level
\* was high then) have all left the window and the level is low.
C18_Witness ==
  /\ Len(logged) = MaxLogCalls /\ Len(securityEvents) = MaxEvents
  /\ \A c \in 1..(MaxLogCalls - ThreatWindow) : logged[c].severity = "high"
  /\ threatLevel = "low"

LevelRank(level) ==
  CASE level = "low" -> 1 [] level = "medium" -> 2 [] level = "high" -> 3 [] level = "critical" -> 4

\* C19: logging a critical event never lowers the threat level, whatever the
\* log holds (also with a full window and a full log).
C19_CriticalNeverLowers ==
  [][(Len(logged') = Len(logged) + 1 /\ logged'[Len(logged')].severity = "critical")
       => LevelRank(threatLevel') >= LevelRank(threatLevel)]_vars

\* A critical event was just logged into a full log; the entry it pushed out of
\* the window was a high one, and the level is high.
C19_Witness ==
  /\ Len(logged) > MaxEvents
  /\ logged[Len(logged)].severity = "critical"
  /\ logged[Len(logged) - ThreatWindow].severity = "high"
  /\ threatLevel = "high"

\* C20: when connections and request handlers call the shared monitor in any
\* interleaving, every logEvent call is in the log exactly once until it is
\* among those evicted (the oldest ones beyond the capacity), with the type and
\* severity it was called with, and the log is in call order.
C20_NoLossNoReorder ==
  /\ \A c \in 1..Len(logged) :
       Cardinality({k \in DOMAIN securityEvents : securityEvents[k].call = c})
         = IF c > Len(logged) - MaxEvents THEN 1 ELSE 0
  /\ \A j, k \in DOMAIN securityEvents :
       j < k => securityEvents[j].call < securityEvents[k].call
  /\ \A k \in DOMAIN securityEvents :
       /\ securityEvents[k].call \in 1..Len(logged)
       /\ securityEvents[k].type = logged[securityEvents[k].call].type
       /\ securityEvents[k].severity = logged[securityEvents[k].call].severity

\* The log has evicted and holds events logged by monitorConnection, by
\* monitorAPIRequest (two in one call) and by a direct logEvent.
C20_Witness ==
  /\ Len(logged) > MaxEvents
  /\ \E i, j, k, l \in DOMAIN securityEvents :
       /\ securityEvents[i].type = "connection"
       /\ securityEvents[j].type = "unauthorized_access_attempt"
       /\ j + 1 \in DOMAIN securityEvents
       /\ securityEvents[j + 1].type = "potential_sql_injection"
       /\ securityEvents[k].type = "event"
       /\ securityEvents[l].type = "potential_xss"

\* C23 as stated: with every metrics field 0 the returned overall is 0, and
\* with every field 100 it is 100.
C23_ScoreBoundaries ==
  /\ \A r \in scored[AllFields(0)] : r.overall = 0
  /\ \A r \in scored[AllFields(100)] : r.overall = 100

\* C24 as stated: the pillar sub-scores returned are the pillar totals and
\* overall is their rounded sum (each being rounded, the sum of the three is
\* within 2 of overall); for the worked example they are about 27.5, 21.5 and
\* 24 and overall is 73.
C24_PillarTotals ==
  /\ \A m \in MetricsVectors : \A r \in scored[m] :
       Abs(r.environmental + r.social + r.governance - r.overall) <= 2
  /\ \A r \in scored[ExampleMetrics] :
       /\ r.environmental \in {27, 28}
       /\ r.social \in {21, 22}
       /\ r.governance = 24
       /\ r.overall = 73

\* The formulas of the specification, for the arguments a.
PremiumOf(a) == Frac(a.esgScore * 15, 10000)
AdjustedRevenueOf(a) == Times(Num(a.revenue), Plus(Num(1), PremiumOf(a)))
MultipleOf(a) == Plus(Num(10), Frac(a.esgScore * 2, 100))
CarbonCostOf(a) == Num(a.carbonEmissions * 50)

C27_InvalidInputRejected ==
  /\ (reply.op = "financial-impact"
        /\ (reply.args.esgScore < 0 \/ reply.args.revenue < 0 \/ reply.args.carbonEmissions < 0))
       => ~reply.success
  /\ (reply.op = "calculate" /\ \E name \in DOMAIN reply.metrics : reply.metrics[name] < 0)
       => ~reply.success

\* C21: the health score is 100 minus 5 per high event, 10 per critical event and
\* 3 per flagged-suspicious entry, all three counted over the recent window only,
\* clamped to [0, 100]: an entry that has left the window no longer lowers it.
C21_HealthScoreOverWindow ==
  reply.op = "health-score" =>
    /\ reply.score = Clamp(100 - 5 * reply.high - 10 * reply.critical - 3 * reply.suspicious)
    /\ reply.score \in 0..100

\* C22: getRecentEvents(limit) returns exactly min(limit, log length) events for
\* every limit >= 0: the most recently logged ones, newest first.
C22_RecentEventsBounded ==
  reply.op = "recent-events" =>
    LET n == Min(reply.limit, Len(reply.log))
    IN  /\ Len(reply.events) = n
        /\ \A k \in 1..n : reply.events[k] = reply.log[Len(reply.log) + 1 - k]

\* C28: the dashboard is protected: a visitor whose session has no userId is
\* never served the dashboard page (requests to / and /dashboard end at the
\* login page until a signup or login has succeeded).
C28_DashboardProtected ==
  \A v \in Visitors : page[v].file = "index.html" => page[v].userId # "none"

\* C29: a socket connection whose request carries no authenticated session is
\* rejected: no connection opens for a visitor without a userId.
C29_SocketNeedsSession ==
  [][\A s \in SessionIds : (link[s] = "none" /\ link'[s] = "open") => userId[s] # "none"]_vars

\* C30: the session's running indicator (loopActive) is false before the first
\* start and false once the loop has exited after stop or disconnect: it never
\* reads true for a session that has no loop in progress.
C30_RunningOnlyWhileLooping ==
  \A s \in SessionIds : loopActive[s] => ActiveLoops(s) # {}

\* C31: across every step of a session (successful cycle, failed cycle, start,
\* stop, disconnect) carbonAccumulator and sampleCount never decrease and are
\* never negative, every sample's emission quantity being >= 0 and a missing
\* quantity counting as 0.
C31_TotalsNeverDecrease ==
  [][\A s \in SessionIds :
       /\ carbonAccumulator'[s] >= carbonAccumulator[s]
       /\ sampleCount'[s] >= sampleCount[s]
       /\ carbonAccumulator'[s] >= 0
       /\ sampleCount'[s] >= 0]_vars

\* C31 witness: session A has accumulated samples of more than one quantity,
\* has had a failed cycle, and was disconnected after a stop.
C31_Witness ==
  /\ sampleCount["A"] >= 3
  /\ carbonAccumulator["A"] >= MaxEmission + 1
  /\ carbonAccumulator["A"] < sampleCount["A"] * MaxEmission
  /\ sentCount["A"]["error"] >= 1
  /\ stopSeen["A"] /\ link["A"] = "gone"

\* C32 as stated: in every scheduler variant, at every point of a session the
\* number of combined score updates pushed is at most one fifth of the number
\* of measurement events emitted.
C32_UpdatesAtMostOneFifth ==
  \A s \in SessionIds : UpdateEvery * Emitted(s, "esgUpdate") <= Emitted(s, "measurement")

\* C34 as stated: at every point of a session sampleCount equals the number of
\* measurement events emitted to the session's observer so far.
C34_CountMatchesMeasurements ==
  \A s \in SessionIds : sampleCount[s] = Emitted(s, "measurement")

\* The pillar totals calculateESGScore adds up for the metrics m, before the
\* normalisation.
EnvironmentalTotal(m) ==
  Plus(Plus(MaxZero(Minus(Num(15), Over(Metric(m, "carbonFootprint"), 100))),
            Times(Over(Metric(m, "renewableEnergy"), 100), Num(15))),
       Times(Over(Metric(m, "wasteReduction"), 100), Num(10)))

SocialTotal(m) ==
  Plus(Plus(Times(Over(Metric(m, "employeeSatisfaction"), 100), Num(10)),
            Times(Over(Metric(m, "diversity"), 100), Num(10))),
       Times(Over(Metric(m, "communityImpact"), 100), Num(10)))

GovernanceTotal(m) ==
  Plus(Plus(Times(Over(Metric(m, "boardIndependence"), 100), Num(10)),
            Times(Over(Metric(m, "transparency"), 100), Num(10))),
       Times(Over(Metric(m, "ethicsCompliance"), 100), Num(10)))

\* x < k for a number x and a whole k
Below(x, k) == x.n < k * x.d

\* C33: when a pillar's raw total is 0, calculateESGScore returns 0 for that
\* pillar's normalised value: a number, the call completing without a
\* division by zero.
C33_ZeroPillarIsZero ==
  reply.op = "calculate" =>
    /\ reply.success
    /\ reply.data.environmental \in Int /\ reply.data.social \in Int /\ reply.data.governance \in Int
    /\ IsZero(EnvironmentalTotal(reply.metrics)) => reply.data.environmental = 0
    /\ IsZero(SocialTotal(reply.metrics)) => reply.data.social = 0
    /\ IsZero(GovernanceTotal(reply.metrics)) => reply.data.governance = 0

\* C33 witness: a footprint of 1500 and nothing else makes all three pillar
\* totals 0, and the score returned for it has the three pillar values 0.
C33_Witness ==
  /\ reply.op = "calculate" /\ reply.metrics = [carbonFootprint |-> 1500]
  /\ IsZero(EnvironmentalTotal(reply.metrics))
  /\ reply.data.environmental = 0 /\ reply.data.social = 0 /\ reply.data.governance = 0

\* C36 as stated: for a score object produced by calculateESGScore,
\* assessESGRisk lists 'Environmental compliance risk' exactly when the
\* environmental pillar total is below 30, and 'Social responsibility risk' /
\* 'Governance risk' exactly when the respective pillar total is below 20.
C36_RiskFactorsFollowTotals ==
  reply.op = "risk" =>
    LET listed == {reply.data.riskFactors[k] : k \in DOMAIN reply.data.riskFactors}
    IN  /\ "Environmental compliance risk" \in listed <=> Below(EnvironmentalTotal(reply.metrics), 30)
        /\ "Social responsibility risk" \in listed <=> Below(SocialTotal(reply.metrics), 20)
        /\ "Governance risk" \in listed <=> Below(GovernanceTotal(reply.metrics), 20)

\* C35 as stated: for each IP address monitorConnection logs a low-severity
\* `connection` event exactly once, on the first connection seen from that
\* address: the log history holds one such event per address that has
\* connected.
C35_FirstConnectionLogged ==
  Cardinality({c \in DOMAIN logged : logged[c].type = "connection" /\ logged[c].severity = "low"})
    = Cardinality({ip \in IPs : connectionAttempts[ip] >= 1})

\* C37 as stated: POST /api/esg/financial-impact computes the impact of exactly
\* the esgScore, revenue and carbonEmissions the caller supplied, 0 included;
\* the defaults 50, 1,000,000 and 100 stand in only for fields that are absent.
C37_SuppliedValuesUsed ==
  reply.op = "financial-impact" =>
    /\ reply.args.esgScore = (IF reply.body.esgScore = <<>> THEN 50 ELSE reply.body.esgScore[1])
    /\ reply.args.revenue = (IF reply.body.revenue = <<>> THEN 1000000 ELSE reply.body.revenue[1])
    /\ reply.args.carbonEmissions =
         (IF reply.body.carbonEmissions = <<>> THEN 100 ELSE reply.body.carbonEmissions[1])
    /\ reply.data = calculateFinancialImpact(reply.args.esgScore, reply.args.revenue,
                                             reply.args.carbonEmissions)
====
